---- MODULE Spec2Model ----
(***************************************************************************)
(* A model of the go-mcp server (src/main.go): the go_doc and go_list tool *)
(* handlers, the go doc error classifier and the documentation cache.      *)
(*                                                                         *)
(* Text is a sequence of atoms.  An atom is one character ("a", "|", " ")  *)
(* or one literal chunk of the program's message templates and of the go   *)
(* tool's diagnostics ("no such package").  Concatenation, joining and     *)
(* substring search are computed on these sequences.                       *)
(*                                                                         *)
(* The repository also holds an older variant of the program               *)
(* (src/unnamed/part_000): its handleGoDoc puts the target before the      *)
(* flags and returns Go errors, and its runGoDoc has no empty-output       *)
(* check.  The model follows src/main.go.                                  *)
(***************************************************************************)
EXTENDS Integers, Sequences, FiniteSets, TLC

VARIABLES
    Workdir,   \* GodocServer.Workdir
    cache,     \* GodocServer.cache: cache key -> cachedDoc
    now,       \* the wall clock read by time.Now(), in minutes
    op,        \* the step that led to this state: "init", "tick", "go_doc", "go_list"
    req,       \* the arguments map of the request handled by that step
    cmdArgs,   \* the argument sequence it passed to the external command
    run,       \* what cmd.CombinedOutput() returned for it
    ret,       \* what the handler returned: [result, err]
    origin,    \* history: cache key -> the invocation whose output is stored under it
    found,     \* history: the entry under the request's key when its handler started
    pc,        \* concurrent handling: where each handler goroutine stands
    local      \* concurrent handling: each goroutine's arguments, cmdArgs and output

vars == <<Workdir, cache, now, op, req, cmdArgs, run, ret, origin, found, pc, local>>

----------------------------------------------------------------------------
(* Bounds of the model *)

MaxTime == 5        \* the clock runs from 0 to MaxTime minutes
MaxOutLen == 2      \* atoms in a captured output of the classifier runs
MaxList == 2        \* elements in a cmd_flags / packages list of the translator runs

----------------------------------------------------------------------------
(* Text helpers *)

SeqsUpTo(S, n) == UNION {[1..k -> S] : k \in 0..n}

\* strings.Contains(s, sub)
Contains(s, sub) ==
    \E i \in 0..(Len(s) - Len(sub)) : SubSeq(s, i + 1, i + Len(sub)) = sub

\* strings.Join(elems, sep)
RECURSIVE Join(_, _)
Join(elems, sep) ==
    IF Len(elems) = 0 THEN <<>>
    ELSE IF Len(elems) = 1 THEN elems[1]
    ELSE elems[1] \o sep \o Join(Tail(elems), sep)

----------------------------------------------------------------------------
(* The arguments map: map[string]interface{}.  A value carries its dynamic *)
(* type t; "missing" stands for a key that is not in the map.              *)

Missing == [t |-> "missing", s |-> <<>>, l |-> <<>>]
StrV(s) == [t |-> "string", s |-> s, l |-> <<>>]
NumV == [t |-> "float64", s |-> <<>>, l |-> <<>>]
StrElem(s) == [t |-> "string", s |-> s]
NumElem == [t |-> "float64", s |-> <<>>]
StrSliceV(l) == [t |-> "[]string", s |-> <<>>, l |-> [i \in 1..Len(l) |-> StrElem(l[i])]]
AnySliceV(l) == [t |-> "[]interface{}", s |-> <<>>, l |-> l]
AnyStrs(l) == AnySliceV([i \in 1..Len(l) |-> StrElem(l[i])])

Args(target, flags, packages) ==
    [pkgSymMethodOrField |-> target, cmd_flags |-> flags, packages |-> packages]

NoArgs == Args(Missing, Missing, Missing)

getString(m, key) ==
    IF m[key].t = "string" THEN [s |-> m[key].s, ok |-> TRUE]
    ELSE [s |-> <<>>, ok |-> FALSE]

\* a faulty variant: the non-string elements of a []interface{} are skipped
\* (as the flag loop of src/unnamed/part_000 does) instead of failing the list
getMapSliceAnyStringSkip(m, key) ==
    LET v == m[key]
        strs == SelectSeq(v.l, LAMBDA e : e.t = "string")
    IN
    IF v.t \in {"[]string", "[]interface{}"}
    THEN [a |-> [i \in 1..Len(strs) |-> strs[i].s], ok |-> TRUE]
    ELSE [a |-> <<>>, ok |-> FALSE]

getMapSliceAnyString(m, key) ==
    LET v == m[key] IN
    IF v.t = "[]string"
    THEN [a |-> [i \in 1..Len(v.l) |-> v.l[i].s], ok |-> TRUE]
    ELSE IF v.t = "[]interface{}"
    THEN IF \A i \in 1..Len(v.l) : v.l[i].t = "string"
         THEN [a |-> [i \in 1..Len(v.l) |-> v.l[i].s], ok |-> TRUE]
         ELSE [a |-> <<>>, ok |-> FALSE]
    ELSE [a |-> <<>>, ok |-> FALSE]

----------------------------------------------------------------------------
(* Errors and results *)

NilErr == [isNil |-> TRUE, msg |-> <<>>]
Errorf(msg) == [isNil |-> FALSE, msg |-> msg]

NilResult == [isNil |-> TRUE, IsError |-> FALSE, Content |-> <<>>]
TextBlock(text) == [type |-> "text", text |-> text]

\* cmd.CombinedOutput(): the error (nil on a zero exit status) and the captured
\* output; invoked tells that the step ran the external command at all.
Ran(err, out) == [invoked |-> TRUE, err |-> err, out |-> out]
NoRun == [invoked |-> FALSE, err |-> NilErr, out |-> <<>>]
NoRet == [result |-> NilResult, err |-> NilErr]

errResponse(err) ==
    IF err.isNil THEN [result |-> NilResult, err |-> NilErr]
    ELSE [result |-> [isNil |-> FALSE, IsError |-> TRUE,
                      Content |-> <<TextBlock(<<"Error: ">> \o err.msg)>>],
          err |-> NilErr]

----------------------------------------------------------------------------
(* The error classifier of runGoDoc *)

SigNoSuchPackage == <<"no such package">>
SigNotInStd == <<"is not in std">>
SigNoSuchSymbol == <<"no such symbol">>
SigBuildConstraints == <<"build constraints exclude all Go files">>

PackageGuidance ==
    << "Package not found. Suggestions:\n",
       "1. For standard library packages, use just the package name (e.g., 'io', 'net/http')\n",
       "2. For external packages, ensure they are imported in the module\n",
       "3. For local packages, provide the relative path (e.g., './pkg') or absolute path\n",
       "4. Check for typos in the package name\n" >>

SymbolGuidance ==
    << "Symbol not found. Suggestions:\n",
       "1. Check if the symbol name is correct (case-sensitive)\n",
       "2. Use -u flag to see unexported symbols\n",
       "3. Use -all flag to see all package documentation\n" >>

BuildGuidance ==
    << "No Go files found for current platform. Suggestions:\n",
       "1. Try using -all flag to see all package files\n",
       "2. Check if you need to set GOOS/GOARCH environment variables\n" >>

\* a faulty variant: the guidance left out
PackageNotFoundNoDetails(err, errStr) ==
    Errorf(<<"Package not found: ">> \o errStr)

PackageNotFound(err, errStr) ==
    Errorf(PackageGuidance \o <<"Error details: ">> \o errStr)

SymbolNotFound(err, errStr) ==
    Errorf(SymbolGuidance \o <<"Error: ">> \o err.msg)

BuildExcluded(err, errStr) ==
    Errorf(BuildGuidance \o <<"Error: ">> \o err.msg)

GenericError(err, errStr) ==
    Errorf(<<"go doc error: ">> \o err.msg \o <<"\noutput: ">> \o errStr
           \o <<"\nTip: Use -h flag to see all available options">>)

\* a faulty variant: the symbol signature tested before the package signatures
classifySymbolFirst(err, errStr) ==
    IF Contains(errStr, SigNoSuchSymbol) THEN SymbolNotFound(err, errStr)
    ELSE IF Contains(errStr, SigNoSuchPackage) \/ Contains(errStr, SigNotInStd)
    THEN PackageNotFound(err, errStr)
    ELSE IF Contains(errStr, SigBuildConstraints) THEN BuildExcluded(err, errStr)
    ELSE GenericError(err, errStr)

\* the body of "if err != nil" in runGoDoc
classify(err, errStr) ==
    IF Contains(errStr, SigNoSuchPackage) \/ Contains(errStr, SigNotInStd)
    THEN PackageNotFound(err, errStr)
    ELSE IF Contains(errStr, SigNoSuchSymbol) THEN SymbolNotFound(err, errStr)
    ELSE IF Contains(errStr, SigBuildConstraints) THEN BuildExcluded(err, errStr)
    ELSE GenericError(err, errStr)

----------------------------------------------------------------------------
(* The documentation cache *)

EmptyCache == [k \in {} |-> 0]

\* the freshness window of the cache lookup, in minutes; the lookup itself is
\* commented out in runGoDoc
FreshnessWindow == 5

NoEntry == [present |-> FALSE, content |-> <<>>, timestamp |-> 0, args |-> <<>>]

cachedDoc(content, t) == [content |-> content, timestamp |-> t, byteSize |-> Len(content)]

CacheKey(workingDir, args) == workingDir \o <<"|">> \o Join(args, <<"|">>)

\* a faulty variant: an existing entry is kept
cacheStoreKeepPrior(c, key, content, t) ==
    [k \in DOMAIN c \cup {key} |-> IF k \in DOMAIN c THEN c[k] ELSE cachedDoc(content, t)]

\* s.cache[cacheKey] = cachedDoc{...}
cacheStore(c, key, content, t) ==
    [k \in DOMAIN c \cup {key} |-> IF k = key THEN cachedDoc(content, t) ELSE c[k]]

NoDocumentation(workingDir, args) ==
    Errorf(<<"No documentation found by running the command: go doc ">>
           \o Join(args, <<" ">>) \o <<" from the directory: ">> \o workingDir)

\* a faulty variant: the output of a failed command is stored too
runGoDocCacheFailures(c, t, workingDir, args, r) ==
    IF ~r.err.isNil
    THEN [doc |-> <<>>, err |-> classify(r.err, r.out),
          cache |-> cacheStore(c, CacheKey(workingDir, args), r.out, t), stored |-> TRUE]
    ELSE IF Len(r.out) = 0
    THEN [doc |-> <<>>, err |-> NoDocumentation(workingDir, args), cache |-> c,
          stored |-> FALSE]
    ELSE [doc |-> r.out, err |-> NilErr,
          cache |-> cacheStore(c, CacheKey(workingDir, args), r.out, t), stored |-> TRUE]

\* a faulty variant: no len(out) == 0 check (as in src/unnamed/part_000)
runGoDocNoEmptyCheck(c, t, workingDir, args, r) ==
    IF ~r.err.isNil
    THEN [doc |-> <<>>, err |-> classify(r.err, r.out), cache |-> c, stored |-> FALSE]
    ELSE [doc |-> r.out, err |-> NilErr,
          cache |-> cacheStore(c, CacheKey(workingDir, args), r.out, t), stored |-> TRUE]

\* runGoDoc on cache c at time t, the external command returning r: the
\* returned (doc, err) and the cache it leaves.  The cache lookup is commented
\* out in the source, so every call runs the command.
runGoDoc(c, t, workingDir, args, r) ==
    IF ~r.err.isNil
    THEN [doc |-> <<>>, err |-> classify(r.err, r.out), cache |-> c, stored |-> FALSE]
    ELSE IF Len(r.out) = 0
    THEN [doc |-> <<>>, err |-> NoDocumentation(workingDir, args), cache |-> c,
          stored |-> FALSE]
    ELSE [doc |-> r.out, err |-> NilErr,
          cache |-> cacheStore(c, CacheKey(workingDir, args), r.out, t), stored |-> TRUE]

----------------------------------------------------------------------------
(* The handlers *)

Success(text) ==
    [result |-> [isNil |-> FALSE, IsError |-> FALSE, Content |-> <<TextBlock(text)>>],
     err |-> NilErr]

\* a faulty variant: the target before the flags (as in src/unnamed/part_000)
docArgsTargetFirst(arguments) ==
    LET flags == getMapSliceAnyString(arguments, "cmd_flags")
        target == getString(arguments, "pkgSymMethodOrField")
        a1 == IF target.ok /\ target.s # <<>> THEN <<target.s>> ELSE <<>>
    IN  IF flags.ok /\ Len(flags.a) > 0 THEN a1 \o flags.a ELSE a1

\* handleGoDoc: "Build command arguments"
docArgs(arguments) ==
    LET flags == getMapSliceAnyString(arguments, "cmd_flags")
        target == getString(arguments, "pkgSymMethodOrField")
        a1 == IF flags.ok /\ Len(flags.a) > 0 THEN flags.a ELSE <<>>
    IN  IF target.ok /\ target.s # <<>> THEN Append(a1, target.s) ELSE a1

\* a faulty variant: the packages before the flags
listArgsPackagesFirst(arguments) ==
    LET flags == getMapSliceAnyString(arguments, "cmd_flags")
        packages == getMapSliceAnyString(arguments, "packages")
        a1 == IF packages.ok THEN packages.a ELSE <<>>
    IN  IF flags.ok THEN a1 \o flags.a ELSE a1

\* handleGoList: flags, then packages
listArgs(arguments) ==
    LET flags == getMapSliceAnyString(arguments, "cmd_flags")
        packages == getMapSliceAnyString(arguments, "packages")
        a1 == IF flags.ok THEN flags.a ELSE <<>>
    IN  IF packages.ok THEN a1 \o packages.a ELSE a1

\* The deferred recover() of handleGoDoc has nothing to catch: the map reads
\* and type assertions of the handler are all of the comma-ok form and s.cache
\* is made in main, so no statement of the handler panics.
HandleGoDoc(arguments, r) ==
    LET a == docArgs(arguments)
        g == runGoDoc(cache, now, Workdir, a, r)
        key == CacheKey(Workdir, a)
    IN  /\ cache' = g.cache
        /\ origin' = IF g.stored
                     THEN [k \in DOMAIN origin \cup {key} |->
                              IF k = key THEN [args |-> a, run |-> r] ELSE origin[k]]
                     ELSE origin
        /\ found' = IF key \in DOMAIN cache
                    THEN [present |-> TRUE, content |-> cache[key].content,
                          timestamp |-> cache[key].timestamp, args |-> origin[key].args]
                    ELSE NoEntry
        /\ op' = "go_doc"
        /\ req' = arguments
        /\ cmdArgs' = a
        /\ run' = r
        /\ ret' = IF ~g.err.isNil THEN errResponse(g.err)
                  ELSE IF g.doc = <<>> THEN Success(<<"No documentation found by go-mcp">>)
                  ELSE Success(g.doc)
        /\ UNCHANGED <<Workdir, now, pc, local>>

\* a faulty variant: an empty output replaced by a placeholder, as handleGoDoc
\* does for an empty doc
HandleGoListPlaceholder(arguments, r) ==
    LET a == listArgs(arguments) IN
        /\ op' = "go_list"
        /\ req' = arguments
        /\ cmdArgs' = a
        /\ run' = r
        /\ ret' = IF ~r.err.isNil
                  THEN [result |-> NilResult,
                        err |-> Errorf(<<"go list error: ">> \o r.err.msg
                                       \o <<"\noutput: ">> \o r.out)]
                  ELSE IF r.out = <<>> THEN Success(<<"No packages found by go-mcp">>)
                  ELSE Success(r.out)
        /\ found' = NoEntry
        /\ UNCHANGED <<Workdir, cache, now, origin, pc, local>>

HandleGoList(arguments, r) ==
    LET a == listArgs(arguments) IN
        /\ op' = "go_list"
        /\ req' = arguments
        /\ cmdArgs' = a
        /\ run' = r
        /\ ret' = IF ~r.err.isNil
                  THEN [result |-> NilResult,
                        err |-> Errorf(<<"go list error: ">> \o r.err.msg
                                       \o <<"\noutput: ">> \o r.out)]
                  ELSE Success(r.out)
        /\ found' = NoEntry
        /\ UNCHANGED <<Workdir, cache, now, origin, pc, local>>

\* time passes between requests
Tick ==
    /\ now < MaxTime
    /\ now' = now + 1
    /\ op' = "tick"
    /\ req' = NoArgs
    /\ cmdArgs' = <<>>
    /\ run' = NoRun
    /\ ret' = NoRet
    /\ found' = NoEntry
    /\ UNCHANGED <<Workdir, cache, origin, pc, local>>

----------------------------------------------------------------------------
(* Inputs *)

\* the goroutines that may run a handler at the same time
Workers == {1, 2}
IdleLocal == [req |-> NoArgs, args |-> <<>>, run |-> NoRun]

A == <<"a">>
B == <<"b">>
AB == <<"a", "|", "b">>
DocX == <<"x">>
DocY == <<"x", "y">>

\* WORKDIR is required to be non-empty by main
Workdirs == {<<"w">>, <<"w", "|", "a">>}

\* *exec.ExitError of a non-zero exit status, and the error of a command that
\* could not be started (which captures no output)
ExitErr == Errorf(<<"exit status 1">>)
StartErr == Errorf(<<"exec: \"go\": executable file not found in $PATH">>)

\* go_doc requests: the first two (flags [a] + target b, target a|b) share a
\* cache key, the third has only wrong-typed fields
DocRequests ==
    { Args(StrV(B), AnyStrs(<<A>>), Missing),
      Args(StrV(AB), Missing, Missing),
      Args(NumV, AnySliceV(<<StrElem(A), NumElem>>), Missing) }

DocRuns ==
    { Ran(NilErr, DocX), Ran(NilErr, DocY), Ran(NilErr, <<>>),
      Ran(ExitErr, SigNoSuchPackage), Ran(ExitErr, DocX) }

ListRequests ==
    { Args(Missing, StrSliceV(<<B>>), AnyStrs(<<A>>)),
      Args(Missing, NumV, AnySliceV(<<NumElem>>)) }

ListRuns == { Ran(NilErr, DocX), Ran(NilErr, <<>>), Ran(ExitErr, DocX) }

\* classifier runs: a failed command with every output of up to MaxOutLen
\* atoms, and a zero exit status with an output that holds a signature or not
OutAtoms ==
    { "no such package", "is not in std", "no such symbol",
      "build constraints exclude all Go files", "x" }

ClassifierRuns ==
    { Ran(ExitErr, o) : o \in SeqsUpTo(OutAtoms, MaxOutLen) }
    \cup { Ran(StartErr, <<>>), Ran(NilErr, <<>>), Ran(NilErr, DocX),
           Ran(NilErr, <<"x", "no such package">>) }

\* translator requests: every field missing, of a wrong type, or a list of up
\* to MaxList elements, each a string or (in a []interface{}) a number
ListValues ==
    {Missing, NumV, StrV(A)}
    \cup { StrSliceV(l) : l \in SeqsUpTo({A, B}, MaxList) }
    \cup { AnySliceV(l) : l \in SeqsUpTo({StrElem(A), StrElem(B), NumElem}, MaxList) }

TargetValues == {Missing, NumV, StrV(<<>>), StrV(A), StrV(B), StrSliceV(<<A>>)}

TranslatorRuns == { Ran(NilErr, DocX), Ran(NilErr, <<>>), Ran(ExitErr, DocX) }

----------------------------------------------------------------------------
(* Specifications *)

\* main: godocServer := &GodocServer{Workdir: workdir, cache: make(...)}
Init ==
    /\ Workdir \in Workdirs
    /\ cache = EmptyCache
    /\ origin = EmptyCache
    /\ now = 0
    /\ op = "init"
    /\ req = NoArgs
    /\ cmdArgs = <<>>
    /\ run = NoRun
    /\ ret = NoRet
    /\ found = NoEntry
    /\ pc = [w \in Workers |-> "idle"]
    /\ local = [w \in Workers |-> IdleLocal]

Next ==
    \/ Tick
    \/ \E a \in DocRequests, r \in DocRuns : HandleGoDoc(a, r)
    \/ \E a \in ListRequests, r \in ListRuns : HandleGoList(a, r)

Spec == Init /\ [][Next]_vars

\* the go_doc handler on every captured output of the classifier runs
NextClassify ==
    \E r \in ClassifierRuns : HandleGoDoc(Args(StrV(A), Missing, Missing), r)

SpecClassify == Init /\ [][NextClassify]_vars

\* both handlers on every request of the translator runs, each as the first
\* request of a fresh server
FirstGoDoc ==
    /\ op = "init"
    /\ \E t \in TargetValues, f \in ListValues, r \in TranslatorRuns :
          HandleGoDoc(Args(t, f, Missing), r)

FirstGoList ==
    /\ op = "init"
    /\ \E f \in ListValues, p \in ListValues, r \in TranslatorRuns :
          HandleGoList(Args(Missing, f, p), r)

NextTranslate == FirstGoDoc \/ FirstGoList

SpecTranslate == Init /\ [][NextTranslate]_vars

----------------------------------------------------------------------------
(* Vocabulary of the properties *)

IsDoc == op = "go_doc"
IsList == op = "go_list"
ZeroExit == run.invoked /\ run.err.isNil
Failed == run.invoked /\ ~run.err.isNil
Key == CacheKey(Workdir, cmdArgs)

\* the handler returned a response object and no Go error
Responded == ~ret.result.isNil /\ ret.err.isNil /\ Len(ret.result.Content) = 1
SuccessResponse == Responded /\ ~ret.result.IsError
ErrorResponse == Responded /\ ret.result.IsError
Text == ret.result.Content[1].text

\* the entry found under the request's key, and its age when the request came
FoundFresh == found.present /\ now - found.timestamp < FreshnessWindow
FoundExpired == found.present /\ now - found.timestamp >= FreshnessWindow

----------------------------------------------------------------------------
(* C1: cache hit.  A documentation request with the working directory and  *)
(* argument sequence of an earlier successful one, issued less than five   *)
(* minutes after it, returns the content the earlier one computed and does *)
(* not run the external command.                                           *)
C1_CacheHit ==
    (IsDoc /\ FoundFresh /\ found.args = cmdArgs)
        => (SuccessResponse /\ Text = found.content /\ ~run.invoked)

(* C2: expiry.  A documentation request whose key holds an entry at least  *)
(* five minutes old runs the external command again, and when the request  *)
(* succeeds the entry under the key is the new content with the time of    *)
(* the request as its timestamp.                                           *)
C2_ExpiredEntryReplaced ==
    (IsDoc /\ FoundExpired)
        => /\ run.invoked
           /\ SuccessResponse =>
                 /\ Key \in DOMAIN cache
                 /\ cache[Key].content = run.out
                 /\ cache[Key].timestamp = now
                 /\ cache[Key].timestamp > found.timestamp

C2_Witness ==
    /\ IsDoc /\ FoundExpired /\ SuccessResponse
    /\ found.content # run.out

(* C3: failures are never cached.  A documentation request whose command   *)
(* fails leaves the cache exactly as it was, whichever branch of the       *)
(* classifier applies.                                                     *)
C3_FailuresNotCached ==
    [][(op' = "go_doc" /\ run'.invoked /\ ~run'.err.isNil) => cache' = cache]_vars

C3_Witness ==
    /\ IsDoc /\ Failed /\ found.present
    /\ Cardinality(DOMAIN cache) = 2

(* C4: cache-entry invariant.  Every entry holds non-empty content that is *)
(* the output of a zero-exit run of go doc on arguments that make the      *)
(* entry's key, and its byteSize is the length of the content.             *)
C4_EntryInvariant ==
    \A k \in DOMAIN cache :
        /\ cache[k].content # <<>>
        /\ k \in DOMAIN origin
        /\ origin[k].run.invoked /\ origin[k].run.err.isNil
        /\ origin[k].run.out = cache[k].content
        /\ CacheKey(Workdir, origin[k].args) = k
        /\ cache[k].byteSize = Len(cache[k].content)

C4_Witness ==
    /\ IsList
    /\ Cardinality(DOMAIN cache) = 2
    /\ \E k \in DOMAIN cache : cache[k].byteSize = 2

----------------------------------------------------------------------------
(* What a request supplies, read off the arguments map itself *)

\* the strings of a field that is a list of strings, in their order
SuppliedList(v) ==
    IF v.t \in {"[]string", "[]interface{}"} /\ \A i \in 1..Len(v.l) : v.l[i].t = "string"
    THEN v.l
    ELSE <<>>

\* the target, when it is a non-empty string
HasTarget(v) == v.t = "string" /\ Len(v.s) > 0

(* C5: documentation argument order.  The argument sequence passed to go   *)
(* doc is the request's cmd_flags in their order, followed by the target   *)
(* as the last element when the target is present and non-empty; an absent *)
(* or empty target adds no element.                                        *)
C5_DocArgumentOrder ==
    IsDoc =>
        LET flags == SuppliedList(req.cmd_flags)
            n == Len(flags)
        IN  /\ Len(cmdArgs) = n + (IF HasTarget(req.pkgSymMethodOrField) THEN 1 ELSE 0)
            /\ \A i \in 1..n : cmdArgs[i] = flags[i].s
            /\ HasTarget(req.pkgSymMethodOrField)
                  => cmdArgs[n + 1] = req.pkgSymMethodOrField.s

C5_Witness ==
    /\ IsDoc
    /\ req.cmd_flags.t = "[]interface{}"
    /\ HasTarget(req.pkgSymMethodOrField)
    /\ cmdArgs = <<B, A, B>>

(* C6: every request, documentation or listing, ends with a response       *)
(* object, a success content list or an error-flagged content list, and    *)
(* with no Go error returned beside it.                                    *)
C6_AlwaysAResponse ==
    (IsDoc \/ IsList) => Responded

(* C7: a documentation request whose command exits with status zero and    *)
(* empty output gets an error-flagged response that carries the "No        *)
(* documentation found" message, and the cache is left as it was.          *)
C7_EmptyResult ==
    [][(op' = "go_doc" /\ run'.invoked /\ run'.err.isNil /\ run'.out = <<>>)
          => /\ ~ret'.result.isNil /\ ret'.err.isNil /\ ret'.result.IsError
             /\ Len(ret'.result.Content) = 1
             /\ Contains(ret'.result.Content[1].text,
                         <<"No documentation found by running the command: go doc ">>)
             /\ cache' = cache]_vars

C7_Witness ==
    /\ IsDoc /\ ZeroExit /\ run.out = <<>>
    /\ ErrorResponse
    /\ found.present

----------------------------------------------------------------------------
(* The classifier's signatures, read off the captured output atom by atom *)

Has(out, atom) == \E i \in 1..Len(out) : out[i] = atom

PkgSig == Has(run.out, "no such package") \/ Has(run.out, "is not in std")
SymSig == Has(run.out, "no such symbol")
BuildSig == Has(run.out, "build constraints exclude all Go files")

SaysPackage == Contains(Text, <<"Package not found. Suggestions:\n">>)
SaysSymbol == Contains(Text, <<"Symbol not found. Suggestions:\n">>)
SaysBuild == Contains(Text, <<"No Go files found for current platform. Suggestions:\n">>)
SaysGeneric == Contains(Text, <<"go doc error: ">>)

(* C8: classifier priority.  For a failed run the message is that of the   *)
(* first matching signature in the order package-not-found, symbol-not-    *)
(* found, build-constraints; the generic message is produced exactly when  *)
(* none of the three matches.                                              *)
C8_ClassifierPriority ==
    (IsDoc /\ Failed) =>
        /\ ErrorResponse
        /\ SaysPackage <=> PkgSig
        /\ SaysSymbol <=> (~PkgSig /\ SymSig)
        /\ SaysBuild <=> (~PkgSig /\ ~SymSig /\ BuildSig)
        /\ SaysGeneric <=> (~PkgSig /\ ~SymSig /\ ~BuildSig)

C8_Witness ==
    /\ IsDoc /\ Failed
    /\ PkgSig /\ SymSig /\ run.out[1] = "no such symbol"
    /\ SaysPackage /\ ~SaysSymbol

(* C9: diagnostic preservation.  For every failed run, in every branch of  *)
(* the classifier, the error message contains the captured output.         *)
C9_OutputPreserved ==
    (IsDoc /\ Failed) => (ErrorResponse /\ Contains(Text, run.out))

(* C10 as stated: whenever the captured output of a documentation run      *)
(* contains the unresolvable-package substring, the response is            *)
(* error-flagged, carries the four-point guidance, and nothing is cached.  *)
C10_AsStated ==
    [][(op' = "go_doc" /\ run'.invoked
        /\ (Has(run'.out, "no such package") \/ Has(run'.out, "is not in std")))
          => /\ ~ret'.result.isNil /\ ret'.result.IsError
             /\ Contains(ret'.result.Content[1].text, PackageGuidance)
             /\ cache' = cache]_vars

(* C10 amended: whenever a documentation run FAILS and its captured output *)
(* contains the unresolvable-package substring, the response is            *)
(* error-flagged, carries the four-point guidance whatever else the output *)
(* contains, and the cache is left as it was.                              *)
C10_PackageGuidance ==
    [][(op' = "go_doc" /\ run'.invoked /\ ~run'.err.isNil
        /\ (Has(run'.out, "no such package") \/ Has(run'.out, "is not in std")))
          => /\ ~ret'.result.isNil /\ ret'.err.isNil /\ ret'.result.IsError
             /\ Len(ret'.result.Content) = 1
             /\ Contains(ret'.result.Content[1].text, PackageGuidance)
             /\ cache' = cache]_vars

C10_Witness ==
    /\ IsDoc /\ Failed
    /\ run.out = <<"no such symbol", "is not in std">>
    /\ ErrorResponse /\ Contains(Text, PackageGuidance)
    /\ found.present

----------------------------------------------------------------------------
(* The translator runs, each request sent again with one wrong-typed field *)
(* taken out of the arguments map and the external command answering as    *)
(* before.                                                                 *)

Fields == {"pkgSymMethodOrField", "cmd_flags", "packages"}

\* a non-string target, a non-list cmd_flags / packages value, or a list that
\* holds a non-string element
WrongTyped(f, v) ==
    IF f = "pkgSymMethodOrField"
    THEN v.t \notin {"missing", "string"}
    ELSE /\ v.t # "missing"
         /\ ~(/\ v.t \in {"[]string", "[]interface{}"}
              /\ \A i \in 1..Len(v.l) : v.l[i].t = "string")

Without(m, f) == [m EXCEPT ![f] = Missing]

ResendGoDoc ==
    /\ op = "go_doc"
    /\ \E f \in Fields : WrongTyped(f, req[f]) /\ HandleGoDoc(Without(req, f), run)

ResendGoList ==
    /\ op = "go_list"
    /\ \E f \in Fields : WrongTyped(f, req[f]) /\ HandleGoList(Without(req, f), run)

NextResend == FirstGoDoc \/ FirstGoList \/ ResendGoDoc \/ ResendGoList

SpecResend == Init /\ [][NextResend]_vars

(* C11: wrong-typed arguments are treated as absent.  For each request     *)
(* field, a request that holds a value of the wrong type in it and the     *)
(* same request without the field get the same argument sequence and the   *)
(* same response.                                                          *)
C11_WrongTypeAsAbsent ==
    [][\A f \in Fields :
          (/\ op \in {"go_doc", "go_list"} /\ op' = op
           /\ WrongTyped(f, req[f])
           /\ req' = Without(req, f)
           /\ run' = run)
             => (cmdArgs' = cmdArgs /\ ret' = ret)]_vars

C11_Witness ==
    /\ IsDoc
    /\ req.pkgSymMethodOrField = StrSliceV(<<A>>)
    /\ req.cmd_flags = AnySliceV(<<StrElem(A), NumElem>>)
    /\ cmdArgs = <<>>
    /\ ZeroExit /\ run.out = DocX /\ SuccessResponse /\ Text = DocX

----------------------------------------------------------------------------
(* C12: listing argument order.  The argument sequence passed to go list   *)
(* is the request's cmd_flags in their order followed by its packages in   *)
(* their order; a missing field adds no element.                           *)
C12_ListArgumentOrder ==
    IsList =>
        LET flags == SuppliedList(req.cmd_flags)
            packages == SuppliedList(req.packages)
            n == Len(flags)
        IN  /\ Len(cmdArgs) = n + Len(packages)
            /\ \A i \in 1..n : cmdArgs[i] = flags[i].s
            /\ \A i \in 1..Len(packages) : cmdArgs[n + i] = packages[i].s
            /\ (req.cmd_flags = Missing /\ req.packages = Missing) => cmdArgs = <<>>

C12_Witness ==
    /\ IsList
    /\ req.cmd_flags = StrSliceV(<<B, A>>)
    /\ req.packages = AnyStrs(<<A, B>>)
    /\ cmdArgs = <<B, A, A, B>>

----------------------------------------------------------------------------
(* C13 as stated: a listing request returns the output of go list as-is as *)
(* a single text block, also when the output is empty, and the response is *)
(* always success-flagged.                                                 *)
C13_AsStated ==
    IsList =>
        /\ ~ret.result.isNil
        /\ ~ret.result.IsError
        /\ ret.result.Content = <<TextBlock(run.out)>>

(* C13 amended: a listing request whose go list command exits with status  *)
(* zero returns the output as-is as a single text block, also when the     *)
(* output is empty, and that response is success-flagged.                  *)
C13_ListResult ==
    (IsList /\ ZeroExit) =>
        /\ ~ret.result.isNil /\ ret.err.isNil
        /\ ~ret.result.IsError
        /\ ret.result.Content = <<TextBlock(run.out)>>

C13_Witness ==
    /\ IsList /\ ZeroExit /\ run.out = <<>>
    /\ SuccessResponse /\ Text = <<>>
    /\ cmdArgs = <<B, A>>

----------------------------------------------------------------------------
(* C14: cache-key identity.  A documentation request addresses an entry of *)
(* the cache if and only if the entry was stored by an invocation with the *)
(* same working directory and the same argument sequence, element by       *)
(* element; the working directory is the same for all requests of a server.*)
C14_KeyIdentity ==
    IsDoc =>
        \A k \in DOMAIN cache : (k = Key) <=> (origin[k].args = cmdArgs)

----------------------------------------------------------------------------
(* Concurrent handling of go_doc requests.  handleGoDoc and runGoDoc take  *)
(* no lock, so a transport that dispatches calls on separate goroutines    *)
(* interleaves them at the two points where a handler can be overtaken:    *)
(* while the external command runs, and before the write to s.cache.       *)

\* handleGoDoc up to cmd.CombinedOutput(): the arguments are built and the
\* command is started
CallGoDoc(i, arguments) ==
    /\ pc[i] = "idle"
    /\ pc' = [pc EXCEPT ![i] = "run"]
    /\ local' = [local EXCEPT ![i] = [req |-> arguments, args |-> docArgs(arguments),
                                      run |-> NoRun]]
    /\ UNCHANGED <<Workdir, cache, now, op, req, cmdArgs, run, ret, origin, found>>

\* the command returns r: on a failure or an empty output the handler returns
\* its error response, otherwise it goes on to the cache write
CommandReturns(i, r) ==
    /\ pc[i] = "run"
    /\ LET g == runGoDoc(cache, now, Workdir, local[i].args, r) IN
        IF g.stored
        THEN /\ pc' = [pc EXCEPT ![i] = "store"]
             /\ local' = [local EXCEPT ![i].run = r]
             /\ UNCHANGED <<op, req, cmdArgs, run, ret>>
        ELSE /\ pc' = [pc EXCEPT ![i] = "idle"]
             /\ local' = [local EXCEPT ![i] = IdleLocal]
             /\ op' = "go_doc"
             /\ req' = local[i].req
             /\ cmdArgs' = local[i].args
             /\ run' = r
             /\ ret' = errResponse(g.err)
    /\ found' = NoEntry
    /\ UNCHANGED <<Workdir, cache, now, origin>>

\* a faulty variant: the write waits while another goroutine is at its write
StoreEntryExclusive(i) ==
    /\ pc[i] = "store"
    /\ \A j \in Workers \ {i} : pc[j] # "store"
    /\ cache' = cacheStore(cache, CacheKey(Workdir, local[i].args), local[i].run.out, now)
    /\ origin' = [k \in DOMAIN origin \cup {CacheKey(Workdir, local[i].args)} |->
                     IF k = CacheKey(Workdir, local[i].args)
                     THEN [args |-> local[i].args, run |-> local[i].run]
                     ELSE origin[k]]
    /\ pc' = [pc EXCEPT ![i] = "idle"]
    /\ local' = [local EXCEPT ![i] = IdleLocal]
    /\ op' = "go_doc"
    /\ req' = local[i].req
    /\ cmdArgs' = local[i].args
    /\ run' = local[i].run
    /\ ret' = Success(local[i].run.out)
    /\ found' = NoEntry
    /\ UNCHANGED <<Workdir, now>>

\* s.cache[cacheKey] = cachedDoc{...} and the return of the success response
StoreEntry(i) ==
    /\ pc[i] = "store"
    /\ cache' = cacheStore(cache, CacheKey(Workdir, local[i].args), local[i].run.out, now)
    /\ origin' = [k \in DOMAIN origin \cup {CacheKey(Workdir, local[i].args)} |->
                     IF k = CacheKey(Workdir, local[i].args)
                     THEN [args |-> local[i].args, run |-> local[i].run]
                     ELSE origin[k]]
    /\ pc' = [pc EXCEPT ![i] = "idle"]
    /\ local' = [local EXCEPT ![i] = IdleLocal]
    /\ op' = "go_doc"
    /\ req' = local[i].req
    /\ cmdArgs' = local[i].args
    /\ run' = local[i].run
    /\ ret' = Success(local[i].run.out)
    /\ found' = NoEntry
    /\ UNCHANGED <<Workdir, now>>

\* two goroutines write the map at once: besides either order of the two
\* writes, the Go runtime may stop the process with "fatal error: concurrent
\* map writes"
ConcurrentMapWrites ==
    /\ \E i, j \in Workers : i # j /\ pc[i] = "store" /\ pc[j] = "store"
    /\ pc' = [w \in Workers |-> "fatal"]
    /\ UNCHANGED <<Workdir, cache, now, op, req, cmdArgs, run, ret, origin, found, local>>

NextConcurrent ==
    \/ \E i \in Workers, a \in DocRequests : CallGoDoc(i, a)
    \/ \E i \in Workers, r \in DocRuns : CommandReturns(i, r)
    \/ \E i \in Workers : StoreEntry(i)
    \/ ConcurrentMapWrites

SpecConcurrent == Init /\ [][NextConcurrent]_vars

(* C15: unsynchronized cache.  Nothing keeps a handler that has reached    *)
(* its cache write from doing it while another handler is at its cache     *)
(* write too, and nothing keeps a handler from reaching it: the state with *)
(* both requests in their store step is reachable (C15_Race).              *)
C15_NoExclusion ==
    \A i \in Workers :
        /\ pc[i] = "store" => ENABLED StoreEntry(i)
        /\ pc[i] = "run" => ENABLED CommandReturns(i, Ran(NilErr, DocX))

C15_Race ==
    /\ \A i \in Workers : pc[i] = "store"
    /\ CacheKey(Workdir, local[1].args) = CacheKey(Workdir, local[2].args)
    /\ local[1].run.out # local[2].run.out

====
